---- MODULE Spec2Model ----
(***************************************************************************)
(* Model of hsadmin's real-time change-notification pipeline:              *)
(*   - events.Broker      (src/internal/events/broker.go, lines 1-108)     *)
(*   - handlers.SSEHandler (same file, lines 110-442): HandleSSE, the      *)
(*     per-connection transport, and StartPolling, the poller.             *)
(*                                                                         *)
(* Go channel semantics are modelled as follows.                           *)
(*   - b.register / b.unregister are unbuffered: a sender stays blocked    *)
(*     until the actor (Broker.run) receives; the receive and the end of   *)
(*     the send are one rendezvous step, after which the actor still has   *)
(*     to run the body of its case (lock, map update, unlock).             *)
(*   - b.broadcast is buffered with capacity 10, a client channel with     *)
(*     capacity 5; a select with a default never blocks.                   *)
(*   - a select with several ready cases picks any of them.                *)
(*   - close of a closed channel and send on a closed channel panic.       *)
(*   - b.mu only orders ClientCount against the actor's map updates; each  *)
(*     critical section is one step here, so the lock needs no variable.   *)
(***************************************************************************)
EXTENDS Integers, Sequences, FiniteSets

\* ------------------------------------------------------------------ bounds
\* Subscriber handles (client channels) that may be allocated.
NumHandles == 2
\* Broadcast calls made by direct callers of the Broker.
MaxEvents == 3

\* Subscribers beside a full intake.
IntakeClients == 1
\* Broadcast calls made after a burst.
MaxBurst == 2
\* Broadcast calls made around a shutdown.
MaxShutdownEvents == 1
\* Broadcast calls made next to HandleSSE clients.
MaxSSEEvents == 1
\* Ticks of the poller's ticker.
MaxTicks == 2
\* Subscribers beside the poller.
PollClients == 1
\* Frames a HandleSSE loop writes from a closed, drained channel.
MaxSpin == 1
\* Broadcast calls made while clients disconnect, and HandleSSE connections
\* made to a Broker that keeps running.
MaxDisconnectEvents == 2
DisconnectClients == 1
\* Characters in the HTML of an event whose frame is looked at byte by byte.
MaxPayload == 3
\* Machine IDs, and user IDs, in the maps given to a change detector.
NumDetectIds == 2

\* ------------------------------------------------------- program constants
\* make(chan Event, 10)
IntakeCap == 10
\* make(chan Event, 5)
ClientCap == 5

Handles == 1..NumHandles

VARIABLES
    \* ---- Broker
    clients,      \* b.clients: the registry (set of client channels)
    intake,       \* b.broadcast: buffered channel of events
    done,         \* b.done has been closed
    queue,        \* buffer of each client channel
    chClosed,     \* each client channel: closed?
    apc,          \* position of the actor goroutine (Broker.run)
    areq,         \* the channel the actor took from register/unregister
    panicked,     \* a goroutine panicked (the process dies)
    \* ---- direct callers of the Broker API
    sub,          \* the goroutine that owns handle h: none (not started),
                  \* sending (in Subscribe, blocked on b.register), held
                  \* (Subscribe returned), unsub (in Unsubscribe, blocked on
                  \* b.unregister)
    nextId,       \* payload of the next Broadcast call
    calls,        \* Broadcast calls made by direct callers
    dropped,      \* payloads Broadcast dropped at the full intake
    closeId,      \* history: the value of nextId when Close was called
    closeHandles, \* history: the number of handles allocated at that time
    \* ---- HandleSSE, one call per handle
    tpc,          \* position of the HandleSSE goroutine that owns handle h
    ctxDone,      \* r.Context() of that request is cancelled
    resp,         \* frames written to that request's response
    \* ---- StartPolling and the fleet it polls
    ppc,               \* position of the StartPolling goroutine
    pollCtxDone,       \* ctx of StartPolling is cancelled
    ticks,             \* ticks taken from ticker.C
    tick,              \* what the last tick did: the ClientCount it read,
                       \* the fetches it made and the errors they returned,
                       \* what the detectors said, the render errors, the
                       \* Broadcast calls it made
    lastMachineStates, \* map[uint64]*MachineState of the previous tick
    lastUserStates,    \* map[uint64]*UserState of the previous tick
    fleetMachines,     \* the machines headscale holds now
    fleetUsers,        \* the users headscale holds now
    \* ---- one call of a change detector, taken alone
    det,               \* the detector called, its two arguments, its result
    \* ---- one request served through Middleware.RequireAuth
    auth               \* the configuration, the request and the response

brokerVars == <<clients, intake, done, queue, chClosed, apc, areq, panicked>>

callerVars == <<sub, nextId, calls, dropped, closeId, closeHandles>>

sseVars == <<tpc, ctxDone, resp>>

pollVars == <<ppc, pollCtxDone, ticks, tick,
              lastMachineStates, lastUserStates, fleetMachines, fleetUsers, det,
              auth>>

vars == <<brokerVars, callerVars, sseVars, pollVars>>

\* The zero value of Event, what a receive from a closed, drained channel yields.
ZeroEvent == [Type |-> "", HTML |-> <<>>]

\* Event{Type: "x", HTML: <n-th payload>}; a string is a sequence of characters.
MkEvent(n) == [Type |-> "x", HTML |-> <<n>>]

\* ------------------------------------------------------------ NewBroker
BrokerInit ==
    /\ clients = {}
    /\ intake = <<>>
    /\ done = FALSE
    /\ queue = [h \in Handles |-> <<>>]
    /\ chClosed = [h \in Handles |-> FALSE]
    /\ apc = "select"
    /\ areq = 0
    /\ panicked = FALSE

CallerInit ==
    /\ sub = [h \in Handles |-> "none"]
    /\ nextId = 1
    /\ calls = 0
    /\ dropped = {}
    /\ closeId = 0
    /\ closeHandles = 0

SSEInit ==
    /\ tpc = [h \in Handles |-> "idle"]
    /\ ctxDone = [h \in Handles |-> FALSE]
    /\ resp = [h \in Handles |-> <<>>]

\* ---------------------------------------------------------------- fleet
\* What the poller reads of a models.Machine: ID(), Online, ApprovedSubnets(),
\* ExitNodeStatus() == "Approved", Tags(), User().
FleetMachine(i, o) ==
    [ID |-> i, Online |-> o, Routes |-> {}, ExitNode |-> FALSE, Tags |-> {},
     User |-> "a"]

\* The fleets the poller meets: no machine, machine 1 online, machine 1
\* offline. Moving between them is a machine added, a machine deleted and an
\* online flag flipped.
Fleets == {{}, {FleetMachine(1, TRUE)}, {FleetMachine(1, FALSE)}}

\* The user lists headscale may hold.
UserLists == SUBSET {[Id |-> 1, Name |-> "a"]}

\* make(map[uint64]*MachineState), make(map[uint64]*UserState)
EmptyMap == [id \in {} |-> id]

\* What a tick did, before it has done anything.
NoTick ==
    [clientCount |-> 0, machinesFetched |-> FALSE, usersFetched |-> FALSE,
     machinesErr |-> FALSE, usersErr |-> FALSE,
     polled |-> FALSE, machinesChanged |-> FALSE, usersChanged |-> FALSE,
     machinesRenderErr |-> FALSE, usersRenderErr |-> FALSE,
     machinesSent |-> FALSE, usersSent |-> FALSE]

\* No request has been served.
NoRequest == [called |-> FALSE]

\* No detector call is looked at alone.
NoCall == [fn |-> "none", current |-> EmptyMap, previous |-> EmptyMap,
           called |-> FALSE, result |-> FALSE]

PollInit ==
    /\ det = NoCall
    /\ auth = NoRequest
    /\ ppc = "wait"
    /\ pollCtxDone = FALSE
    /\ ticks = 0
    /\ tick = NoTick
    /\ lastMachineStates = EmptyMap
    /\ lastUserStates = EmptyMap
    /\ fleetMachines = {}
    /\ fleetUsers = {}

\* A panic in any goroutine ends the process: nothing runs afterwards.
Alive == ~panicked

\* Handles are named in the order Subscribe allocates them (make(chan Event, 5)).
Allocated(h) == sub[h] # "none" \/ tpc[h] # "idle"

NextHandle(h) == /\ ~Allocated(h)
                 /\ \A g \in Handles : g < h => Allocated(g)

\* ------------------------------------------------ non-blocking channel sends
\* A faulty variant of Offer: it gives up one slot early.
OfferShort(q, e) == IF Len(q) < ClientCap - 1 THEN Append(q, e) ELSE q

\* A faulty variant of Offer: a full channel evicts its oldest event.
OfferEvictOldest(q, e) ==
    IF Len(q) < ClientCap THEN Append(q, e) ELSE Append(Tail(q), e)

\* A faulty variant of Offer: the event is sent twice.
OfferTwice(q, e) ==
    IF Len(q) + 1 < ClientCap THEN Append(Append(q, e), e)
    ELSE IF Len(q) < ClientCap THEN Append(q, e) ELSE q

\* select { case client <- event: default: } on a channel of capacity 5
Offer(q, e) == IF Len(q) < ClientCap THEN Append(q, e) ELSE q

\* A faulty variant of IntakeOffer: a full intake evicts its oldest event.
IntakeOfferEvict(in, e) ==
    IF Len(in) < IntakeCap THEN Append(in, e) ELSE Append(Tail(in), e)

\* select { case b.broadcast <- event: default: } on a channel of capacity 10
IntakeOffer(in, e) == IF Len(in) < IntakeCap THEN Append(in, e) ELSE in

\* ------------------------------------------------------------ Broker API
\* Subscribe, up to the blocking send on b.register.
SubscribeCall(h) ==
    /\ Alive
    /\ NextHandle(h)
    /\ sub' = [sub EXCEPT ![h] = "sending"]
    /\ UNCHANGED <<brokerVars, nextId, calls, dropped, closeId, closeHandles,
                   sseVars, pollVars>>

\* Unsubscribe(h), up to the blocking send on b.unregister. The owner may call
\* it again after it returned.
UnsubscribeCall(h) ==
    /\ Alive
    /\ sub[h] = "held"
    /\ sub' = [sub EXCEPT ![h] = "unsub"]
    /\ UNCHANGED <<brokerVars, nextId, calls, dropped, closeId, closeHandles,
                   sseVars, pollVars>>

\* Broadcast: the whole call; it never blocks.
BroadcastCall(limit) ==
    /\ Alive
    /\ calls < limit
    /\ calls' = calls + 1
    /\ intake' = IntakeOffer(intake, MkEvent(nextId))
    /\ dropped' = IF intake' = intake THEN dropped \cup {nextId} ELSE dropped
    /\ nextId' = nextId + 1
    /\ UNCHANGED <<clients, done, queue, chClosed, apc, areq, panicked,
                   sub, closeId, closeHandles, sseVars, pollVars>>

\* Close: close(b.done). main calls it once (defer broker.Close()). With
\* mark, the step also records how far the callers had come (closeId,
\* closeHandles), for the properties about calls made after Close.
CloseCall(mark) ==
    /\ Alive
    /\ ~done
    /\ done' = TRUE
    /\ closeId' = IF mark THEN nextId ELSE closeId
    /\ closeHandles' = IF mark THEN Cardinality({h \in Handles : Allocated(h)})
                               ELSE closeHandles
    /\ UNCHANGED <<clients, intake, queue, chClosed, apc, areq, panicked,
                   sub, nextId, calls, dropped, sseVars, pollVars>>

\* ClientCount: len(b.clients) under the read lock.
ClientCount == Cardinality(clients)

\* A direct caller receives the next event of its channel.
Receive(h) ==
    /\ Alive
    /\ sub[h] = "held"
    /\ queue[h] # <<>>
    /\ queue' = [queue EXCEPT ![h] = Tail(@)]
    /\ UNCHANGED <<clients, intake, done, chClosed, apc, areq, panicked,
                   callerVars, sseVars, pollVars>>

\* ------------------------------------------------------------ Broker.run
\* case client := <-b.register: the rendezvous with a blocked Subscribe.
ActorRecvRegister(h) ==
    /\ Alive
    /\ apc = "select"
    /\ sub[h] = "sending"
    /\ sub' = [sub EXCEPT ![h] = "held"]
    /\ apc' = "register"
    /\ areq' = h
    /\ UNCHANGED <<clients, intake, done, queue, chClosed, panicked,
                   nextId, calls, dropped, closeId, closeHandles,
                   sseVars, pollVars>>

\* A faulty variant of ActorRegister: the channel taken from b.register is
\* not put into the registry.
ActorRegisterDrop ==
    /\ Alive
    /\ apc = "register"
    /\ apc' = "select"
    /\ areq' = 0
    /\ UNCHANGED <<clients, intake, done, queue, chClosed, panicked, callerVars,
                   sseVars, pollVars>>

\* b.clients[client] = true
ActorRegister ==
    /\ Alive
    /\ apc = "register"
    /\ clients' = clients \cup {areq}
    /\ apc' = "select"
    /\ areq' = 0
    /\ UNCHANGED <<intake, done, queue, chClosed, panicked, callerVars, sseVars, pollVars>>

\* case client := <-b.unregister: the rendezvous with a blocked Unsubscribe.
ActorRecvUnregister(h) ==
    /\ Alive
    /\ apc = "select"
    /\ sub[h] = "unsub"
    /\ sub' = [sub EXCEPT ![h] = "held"]
    /\ apc' = "unregister"
    /\ areq' = h
    /\ UNCHANGED <<clients, intake, done, queue, chClosed, panicked,
                   nextId, calls, dropped, closeId, closeHandles,
                   sseVars, pollVars>>

\* A faulty variant of Registered: the membership test is missing.
RegisteredAlways(cs, c) == TRUE

\* A faulty variant of Registered: the channel is never found.
RegisteredNever(cs, c) == FALSE

\* if _, ok := b.clients[client]; ok
Registered(cs, c) == c \in cs

\* A faulty variant of ActorUnregister: the channel is closed but stays in
\* the registry.
ActorUnregisterKeep ==
    /\ Alive
    /\ apc = "unregister"
    /\ apc' = "select"
    /\ areq' = 0
    /\ chClosed' = [chClosed EXCEPT ![areq] = TRUE]
    /\ panicked' = chClosed[areq]
    /\ UNCHANGED <<clients, intake, done, queue, callerVars, sseVars, pollVars>>

\* if registered { delete(b.clients, client); close(client) }
ActorUnregister ==
    /\ Alive
    /\ apc = "unregister"
    /\ apc' = "select"
    /\ areq' = 0
    /\ IF Registered(clients, areq)
       THEN /\ clients' = clients \ {areq}
            /\ chClosed' = [chClosed EXCEPT ![areq] = TRUE]
            /\ panicked' = chClosed[areq]
       ELSE UNCHANGED <<clients, chClosed, panicked>>
    /\ UNCHANGED <<intake, done, queue, callerVars, sseVars, pollVars>>

\* A faulty variant of ActorBroadcast: the sends are blocking (client <- event
\* without select/default), so the loop cannot pass a full channel.
ActorBroadcastBlocking ==
    /\ Alive
    /\ apc = "select"
    /\ intake # <<>>
    /\ \A c \in clients : Len(queue[c]) < ClientCap
    /\ intake' = Tail(intake)
    /\ queue' = [c \in Handles |->
                    IF c \in clients THEN Append(queue[c], Head(intake))
                                     ELSE queue[c]]
    /\ UNCHANGED <<clients, done, chClosed, apc, areq, panicked,
                   callerVars, sseVars, pollVars>>

\* case event := <-b.broadcast: the loop over b.clients, a non-blocking send
\* to each. The sends touch one channel each and commute with every step of
\* the other goroutines, so the loop is one step. A send on a closed channel
\* panics.
ActorBroadcast ==
    /\ Alive
    /\ apc = "select"
    /\ intake # <<>>
    /\ intake' = Tail(intake)
    /\ IF \E c \in clients : chClosed[c]
       THEN /\ panicked' = TRUE
            /\ UNCHANGED queue
       ELSE /\ queue' = [c \in Handles |->
                           IF c \in clients THEN Offer(queue[c], Head(intake))
                                            ELSE queue[c]]
            /\ UNCHANGED panicked
    /\ UNCHANGED <<clients, done, chClosed, apc, areq, callerVars, sseVars, pollVars>>

\* A faulty variant of ActorDone: it empties the registry and returns without
\* closing the client channels.
ActorDoneKeepOpen ==
    /\ Alive
    /\ apc = "select"
    /\ done
    /\ clients' = {}
    /\ apc' = "exited"
    /\ UNCHANGED <<intake, done, queue, chClosed, areq, panicked,
                   callerVars, sseVars, pollVars>>

\* case <-b.done: close every client channel, empty the registry, return.
ActorDone ==
    /\ Alive
    /\ apc = "select"
    /\ done
    /\ chClosed' = [h \in Handles |-> chClosed[h] \/ h \in clients]
    /\ panicked' = (\E h \in clients : chClosed[h])
    /\ clients' = {}
    /\ apc' = "exited"
    /\ UNCHANGED <<intake, done, queue, areq, callerVars, sseVars, pollVars>>

Actor ==
    \/ \E h \in Handles : ActorRecvRegister(h)
    \/ ActorRegister
    \/ \E h \in Handles : ActorRecvUnregister(h)
    \/ ActorUnregister
    \/ ActorBroadcast
    \/ ActorDone

\* ------------------------------------------------------------ HandleSSE
\* fmt.Fprintf(w, "data: {\"type\":\"connected\"}\n\n")
ConnectedFrame == [kind |-> "connected", Type |-> "", HTML |-> <<>>]

\* http.Error(w, "Streaming not supported", 500)
ErrorFrame == [kind |-> "error", Type |-> "", HTML |-> <<>>]

\* The frame written for one event read from clientChan.
EventFrame(e) == [kind |-> "event", Type |-> e.Type, HTML |-> e.HTML]

\* Frames written from the zero Event, i.e. read from the closed channel.
ZeroFrames(h) == Len(SelectSeq(resp[h], LAMBDA f : f = EventFrame(ZeroEvent)))

\* A faulty variant of SSEStart: the "connected" frame is written before
\* Subscribe is called.
SSEStartAck(h) ==
    /\ Alive
    /\ NextHandle(h)
    /\ tpc' = [tpc EXCEPT ![h] = "subscribe"]
    /\ resp' = [resp EXCEPT ![h] = Append(@, [kind |-> "connected", Type |-> "", HTML |-> <<>>])]
    /\ UNCHANGED <<brokerVars, callerVars, ctxDone, pollVars>>

\* A faulty variant of Split: it cuts at the first separator only.
SplitOnce(s, sep) ==
    IF \E i \in 1..Len(s) : s[i] = sep
    THEN LET i == CHOOSE i \in 1..Len(s) :
                     s[i] = sep /\ \A j \in 1..(i - 1) : s[j] # sep
         IN  <<SubSeq(s, 1, i - 1), SubSeq(s, i + 1, Len(s))>>
    ELSE <<s>>

\* strings.Split(s, sep) for a one-character sep: the pieces between the
\* separators, empty pieces included; a string without separator is one piece.
RECURSIVE Split(_, _)
Split(s, sep) ==
    IF \E i \in 1..Len(s) : s[i] = sep
    THEN LET i == CHOOSE i \in 1..Len(s) :
                     s[i] = sep /\ \A j \in 1..(i - 1) : s[j] # sep
         IN  <<SubSeq(s, 1, i - 1)>> \o Split(SubSeq(s, i + 1, Len(s)), sep)
    ELSE <<s>>

\* for _, line := range lines { fmt.Fprintf(w, "data: %s\n", line) }
RECURSIVE DataLines(_)
DataLines(lines) ==
    IF lines = <<>> THEN <<>>
    ELSE <<"data: ">> \o Head(lines) \o <<"\n">> \o DataLines(Tail(lines))

\* The text written for one event: fmt.Fprintf(w, "event: %s\n", event.Type),
\* the data lines of strings.Split(event.HTML, "\n"), fmt.Fprintf(w, "\n").
\* A text is a sequence of characters; a format's literal and the event type
\* (a word without newline) count as one character each.
WriteEvent(e) ==
    <<"event: ", e.Type, "\n">> \o DataLines(Split(e.HTML, "\n")) \o <<"\n">>

\* The text of one frame.
FrameText(f) ==
    CASE f.kind = "connected" -> <<"data: {\"type\":\"connected\"}", "\n", "\n">>
      [] f.kind = "error" -> <<"Streaming not supported", "\n">>
      [] f.kind = "event" -> WriteEvent(f)

\* The bytes written to a response, in the order of the writes.
RECURSIVE Wire(_)
Wire(r) == IF r = <<>> THEN <<>> ELSE FrameText(Head(r)) \o Wire(Tail(r))

\* HandleSSE up to the blocking send of Subscribe on b.register.
SSEStart(h) ==
    /\ Alive
    /\ NextHandle(h)
    /\ tpc' = [tpc EXCEPT ![h] = "subscribe"]
    /\ UNCHANGED <<brokerVars, callerVars, ctxDone, resp, pollVars>>

\* case client := <-b.register, the sender being a HandleSSE call.
SSERecvRegister(h) ==
    /\ Alive
    /\ apc = "select"
    /\ tpc[h] = "subscribe"
    /\ tpc' = [tpc EXCEPT ![h] = "stream"]
    /\ apc' = "register"
    /\ areq' = h
    /\ UNCHANGED <<clients, intake, done, queue, chClosed, panicked,
                   callerVars, ctxDone, resp, pollVars>>

\* flusher, ok := w.(http.Flusher): without a flusher, report and return (the
\* deferred Unsubscribe blocks on b.unregister); with one, write the
\* "connected" frame and enter the loop.
SSEStream(h) ==
    /\ Alive
    /\ tpc[h] = "stream"
    /\ \E ok \in BOOLEAN :
          IF ok
          THEN /\ resp' = [resp EXCEPT ![h] = Append(@, ConnectedFrame)]
               /\ tpc' = [tpc EXCEPT ![h] = "loop"]
          ELSE /\ resp' = [resp EXCEPT ![h] = Append(@, ErrorFrame)]
               /\ tpc' = [tpc EXCEPT ![h] = "unsub"]
    /\ UNCHANGED <<brokerVars, callerVars, ctxDone, pollVars>>

\* What event := <-clientChan yields: the oldest buffered event, or the zero
\* Event once the channel is closed and drained (the receive has no ", ok").
ChanRecv(q) == IF q # <<>> THEN Head(q) ELSE ZeroEvent

\* case event := <-clientChan: write the event's frame and flush.
SSERecv(h) ==
    /\ Alive
    /\ tpc[h] = "loop"
    /\ queue[h] # <<>> \/ (chClosed[h] /\ ZeroFrames(h) < MaxSpin)
    /\ resp' = [resp EXCEPT ![h] = Append(@, EventFrame(ChanRecv(queue[h])))]
    /\ queue' = [queue EXCEPT ![h] = IF @ # <<>> THEN Tail(@) ELSE @]
    /\ UNCHANGED <<clients, intake, done, chClosed, apc, areq, panicked,
                   callerVars, tpc, ctxDone, pollVars>>

\* The client disconnects: the request's context is cancelled.
CtxCancel(h) ==
    /\ Alive
    /\ tpc[h] \notin {"idle", "returned"}
    /\ ~ctxDone[h]
    /\ ctxDone' = [ctxDone EXCEPT ![h] = TRUE]
    /\ UNCHANGED <<brokerVars, callerVars, tpc, resp, pollVars>>

\* case <-r.Context().Done(): return; the deferred Unsubscribe blocks on
\* b.unregister.
SSECtxDone(h) ==
    /\ Alive
    /\ tpc[h] = "loop"
    /\ ctxDone[h]
    /\ tpc' = [tpc EXCEPT ![h] = "unsub"]
    /\ UNCHANGED <<brokerVars, callerVars, ctxDone, resp, pollVars>>

\* case client := <-b.unregister, the sender being HandleSSE's deferred
\* Unsubscribe, which then returns.
SSERecvUnregister(h) ==
    /\ Alive
    /\ apc = "select"
    /\ tpc[h] = "unsub"
    /\ tpc' = [tpc EXCEPT ![h] = "returned"]
    /\ apc' = "unregister"
    /\ areq' = h
    /\ UNCHANGED <<clients, intake, done, queue, chClosed, panicked,
                   callerVars, ctxDone, resp, pollVars>>

\* --------------------------------------------------------- StartPolling
\* A faulty variant of SetEquals: only the lengths are compared.
SetEqualsLen(s, s2) == Cardinality(s2) = Cardinality(s)

\* set.Equals: same length, and every item of s2 is in s.
SetEquals(s, s2) ==
    /\ Cardinality(s2) = Cardinality(s)
    /\ \A item \in s2 : item \in s

\* A faulty variant of detectMachineChanges: every tick counts as a change.
detectMachineChangesAlways(current, previous) == TRUE

\* detectMachineChanges: a new machine, a deleted machine, or a machine whose
\* online flag, approved routes, exit-node flag or tags differ.
detectMachineChanges(current, previous) ==
    \/ \E id \in DOMAIN current : id \notin DOMAIN previous
    \/ \E id \in DOMAIN previous : id \notin DOMAIN current
    \/ \E id \in DOMAIN current \cap DOMAIN previous :
          \/ current[id].Online # previous[id].Online
          \/ ~SetEquals(current[id].ApprovedRoutes, previous[id].ApprovedRoutes)
          \/ current[id].ExitNodeEnabled # previous[id].ExitNodeEnabled
          \/ ~SetEquals(current[id].Tags, previous[id].Tags)

\* A faulty variant of detectUserChanges: a user of current that previous
\* does not hold is passed over.
detectUserChangesKnownOnly(current, previous) ==
    \/ Cardinality(DOMAIN current) # Cardinality(DOMAIN previous)
    \/ \E id \in DOMAIN current \cap DOMAIN previous :
          \/ current[id].Name # previous[id].Name
          \/ current[id].MachineCount # previous[id].MachineCount

\* detectUserChanges: the counts differ, or a user of current is missing from
\* previous or differs in name or machine count.
detectUserChanges(current, previous) ==
    \/ Cardinality(DOMAIN current) # Cardinality(DOMAIN previous)
    \/ \E id \in DOMAIN current :
          \/ id \notin DOMAIN previous
          \/ /\ id \in DOMAIN previous
             /\ \/ current[id].Name # previous[id].Name
                \/ current[id].MachineCount # previous[id].MachineCount

\* The MachineState record of the machine with this ID in the fetched list.
MachineOf(ms, id) == CHOOSE m \in ms : m.ID = id

\* currentStates of pollMachineChanges
MachineStates(ms) ==
    [id \in {m.ID : m \in ms} |->
        [ID |-> id,
         Online |-> MachineOf(ms, id).Online,
         ApprovedRoutes |-> MachineOf(ms, id).Routes,
         ExitNodeEnabled |-> MachineOf(ms, id).ExitNode,
         Tags |-> MachineOf(ms, id).Tags]]

\* countMachinesPerUser, read at one name (0 for a name without machines)
MachineCount(ms, name) == Cardinality({m \in ms : m.User = name})

UserOf(us, id) == CHOOSE u \in us : u.Id = id

\* currentStates of pollUserChanges
UserStates(us, ms) ==
    [id \in {u.Id : u \in us} |->
        [ID |-> id,
         Name |-> UserOf(us, id).Name,
         MachineCount |-> MachineCount(ms, UserOf(us, id).Name)]]

\* A faulty variant of MachinesTable: the machines are left out of the table.
MachinesTableEmpty(ms, us) ==
    [Type |-> "machinesTable",
     HTML |-> <<[table |-> "machines", Machines |-> {}, Users |-> us]>>]

\* The rendered "machines-table" template: an opaque string that is a
\* function of the full snapshot.
MachinesTable(ms, us) ==
    [Type |-> "machinesTable",
     HTML |-> <<[table |-> "machines", Machines |-> ms, Users |-> us]>>]

\* The rendered "users-table" template, wrapped in the hx-swap-oob div.
UsersTable(us) ==
    [Type |-> "usersTable", HTML |-> <<[table |-> "users", Users |-> us]>>]

\* The fleet changes behind the poller's back.
FleetChange ==
    /\ Alive
    /\ \E fm \in Fleets, fu \in UserLists :
          /\ <<fm, fu>> # <<fleetMachines, fleetUsers>>
          /\ fleetMachines' = fm
          /\ fleetUsers' = fu
    /\ UNCHANGED <<brokerVars, callerVars, sseVars, ppc, pollCtxDone, ticks, tick,
                   lastMachineStates, lastUserStates, det, auth>>

\* The process shuts down: cancelFunc().
PollCancel ==
    /\ Alive
    /\ ~pollCtxDone
    /\ pollCtxDone' = TRUE
    /\ UNCHANGED <<brokerVars, callerVars, sseVars, ppc, ticks, tick,
                   lastMachineStates, lastUserStates, fleetMachines, fleetUsers, det, auth>>

\* A faulty variant of SkipTick: the poller never skips a tick.
SkipTickNever(n) == n < 0

\* if clientCount == 0 { continue }
SkipTick(n) == n = 0

\* A faulty variant of FetchFailed: the error of a fetch is ignored.
FetchFailedIgnored(ok) == FALSE

\* A faulty variant of RenderFailed: the error of a render is ignored.
RenderFailedIgnored(ok) == FALSE

\* A faulty variant of NewStates: the previous states are kept.
NewStatesStale(currentStates, previousStates) == previousStates

\* if err != nil { log; continue } after FetchMachines and after ListUsers
FetchFailed(ok) == ~ok

\* if err := h.templates.ExecuteTemplate(...); err != nil { log; return }
RenderFailed(ok) == ~ok

\* lastMachineStates = h.pollMachineChanges(...), which returns currentStates
\* (lastUserStates and pollUserChanges alike)
NewStates(currentStates, previousStates) == currentStates

\* case <-ticker.C: one pass of the loop body. With no client the tick ends at
\* once; a failed fetch ends it too (continue). Otherwise pollMachineChanges
\* and pollUserChanges each build the current states, on a detected change
\* render the table and, unless rendering fails, Broadcast it, and return the
\* current states as the next previous states. The body reads the Broker only
\* through ClientCount and the non-blocking Broadcast, so it is one step.
PollTick ==
    /\ Alive
    /\ ppc = "wait"
    /\ ticks < MaxTicks
    /\ ticks' = ticks + 1
    /\ \E machinesOk, usersOk, machinesRendered, usersRendered \in BOOLEAN :
          LET n == ClientCount
              fetchM == ~SkipTick(n)
              fetchU == fetchM /\ ~FetchFailed(machinesOk)
              polled == fetchU /\ ~FetchFailed(usersOk)
              curM == MachineStates(fleetMachines)
              curU == UserStates(fleetUsers, fleetMachines)
              changedM == polled /\ detectMachineChanges(curM, lastMachineStates)
              changedU == polled /\ detectUserChanges(curU, lastUserStates)
              sentM == changedM /\ ~RenderFailed(machinesRendered)
              sentU == changedU /\ ~RenderFailed(usersRendered)
              in1 == IF sentM
                     THEN IntakeOffer(intake, MachinesTable(fleetMachines, fleetUsers))
                     ELSE intake
              in2 == IF sentU THEN IntakeOffer(in1, UsersTable(fleetUsers)) ELSE in1
          IN  /\ intake' = in2
              /\ lastMachineStates' = IF polled THEN NewStates(curM, lastMachineStates)
                                                ELSE lastMachineStates
              /\ lastUserStates' = IF polled THEN NewStates(curU, lastUserStates)
                                             ELSE lastUserStates
              /\ tick' = [clientCount |-> n,
                          machinesFetched |-> fetchM, usersFetched |-> fetchU,
                          machinesErr |-> fetchM /\ ~machinesOk,
                          usersErr |-> fetchU /\ ~usersOk,
                          polled |-> polled,
                          machinesChanged |-> changedM, usersChanged |-> changedU,
                          machinesRenderErr |-> changedM /\ ~machinesRendered,
                          usersRenderErr |-> changedU /\ ~usersRendered,
                          machinesSent |-> sentM, usersSent |-> sentU]
    /\ UNCHANGED <<clients, done, queue, chClosed, apc, areq, panicked, callerVars,
                   sseVars, ppc, pollCtxDone, fleetMachines, fleetUsers, det, auth>>

\* A faulty variant of PollStop: the case leaves the select, not the loop
\* (break instead of return).
PollStopBreak ==
    /\ Alive
    /\ ppc = "wait"
    /\ pollCtxDone
    /\ UNCHANGED vars

\* case <-ctx.Done(): return
PollStop ==
    /\ Alive
    /\ ppc = "wait"
    /\ pollCtxDone
    /\ ppc' = "stopped"
    /\ UNCHANGED <<brokerVars, callerVars, sseVars, pollCtxDone, ticks, tick,
                   lastMachineStates, lastUserStates, fleetMachines, fleetUsers, det, auth>>

\* ------------------------------------------------ Middleware.RequireAuth
\* A path is a sequence of characters; a word between two slashes counts as
\* one character.
\* strings.HasPrefix(s, prefix)
HasPrefix(s, prefix) ==
    /\ Len(s) >= Len(prefix)
    /\ SubSeq(s, 1, Len(prefix)) = prefix

\* publicPaths of isPublicPath
publicPaths ==
    {<<"/", "auth", "/", "login">>,
     <<"/", "auth", "/", "callback">>,
     <<"/", "auth", "/", "logout">>}

\* isPublicPath: path == publicPath || strings.HasPrefix(path, publicPath+"/")
isPublicPath(path) ==
    \E publicPath \in publicPaths :
       path = publicPath \/ HasPrefix(path, publicPath \o <<"/">>)

\* isAuthorizedUser: with a Tailscale listener configured, the user ID is an
\* admin ID or one of the tags is an admin tag.
isAuthorizedUser(cfg, userID, tags) ==
    /\ cfg.Tailscale
    /\ \/ userID \in cfg.AdminUserIDs
       \/ \E userTag \in tags : userTag \in cfg.AdminUserTags

\* The nil *User.
NoUser == [Method |-> "", ID |-> 0]

\* authenticateWithWhoIs: the user, or nil with an error when the request
\* has no remote address, the lookup fails, the answer lacks the node or the
\* profile, the node has no user, or the user is not authorized.
authenticateWithWhoIs(cfg, r) ==
    IF /\ r.RemoteAddr
       /\ r.WhoIs.found
       /\ r.WhoIs.complete
       /\ r.WhoIs.User # 0
       /\ isAuthorizedUser(cfg, r.WhoIs.User, r.WhoIs.Tags)
    THEN [Method |-> "whois", ID |-> r.WhoIs.User]
    ELSE NoUser

\* OIDCAuthenticator.AuthenticateFromSession: the user of a session cookie
\* that decodes, has not expired and carries an authorized email.
AuthenticateFromSession(r) ==
    IF r.Session = "authorized" THEN [Method |-> "oidc", ID |-> 0] ELSE NoUser

\* handleUnauthorized: 403 JSON for an HTMX or JSON request, else a redirect
\* to /auth/login when OIDC is available, else the 403 page.
handleUnauthorized(cfg, r) ==
    IF r.HTMX \/ r.AcceptJSON
    THEN [next |-> FALSE, user |-> NoUser, code |-> "403", location |-> <<>>]
    ELSE IF cfg.HTTP /\ cfg.oidcAuth
    THEN [next |-> FALSE, user |-> NoUser, code |-> "303",
          location |-> <<"/", "auth", "/", "login">>]
    ELSE [next |-> FALSE, user |-> NoUser, code |-> "403", location |-> <<>>]

\* next.ServeHTTP(w, r), with the user in the context if there is one.
ServeNext(user) == [next |-> TRUE, user |-> user, code |-> "next", location |-> <<>>]

\* The handler RequireAuth returns, applied to one request.
RequireAuth(cfg, r) ==
    IF ~cfg.Tailscale /\ ~cfg.HTTP THEN ServeNext(NoUser)
    ELSE IF isPublicPath(r.Path) THEN ServeNext(NoUser)
    ELSE IF cfg.Tailscale /\ authenticateWithWhoIs(cfg, r) # NoUser
    THEN ServeNext(authenticateWithWhoIs(cfg, r))
    ELSE IF cfg.oidcAuth /\ AuthenticateFromSession(r) # NoUser
    THEN ServeNext(AuthenticateFromSession(r))
    ELSE handleUnauthorized(cfg, r)

\* The configurations: a Tailscale listener (with admin user 1 and the admin
\* tag) or none, an HTTP listener or none, and with an HTTP listener an OIDC
\* authenticator or none (NewMiddleware).
Configs ==
    {[Tailscale |-> t, HTTP |-> h, oidcAuth |-> o,
      AdminUserIDs |-> IF t THEN {1} ELSE {},
      AdminUserTags |-> IF t THEN {"tag:admin"} ELSE {}] :
        t \in BOOLEAN, h \in BOOLEAN, o \in BOOLEAN} \ 
    {c \in [Tailscale : BOOLEAN, HTTP : BOOLEAN, oidcAuth : BOOLEAN,
            AdminUserIDs : {{}, {1}}, AdminUserTags : {{}, {"tag:admin"}}] :
        c.oidcAuth /\ ~c.HTTP}

\* The paths requested: the public ones, paths below a public one, and
\* protected ones.
RequestPaths ==
    publicPaths \cup
    {<<"/", "auth", "/", "login", "/", "x">>,
     <<"/", "auth", "/", "logout", "/">>,
     <<"/", "auth", "/", "x">>,
     <<"/", "machines">>,
     <<"/", "events">>,
     <<"/">>}

\* What tsnetClient.WhoIs may answer about the peer.
WhoIsAnswers ==
    [found : BOOLEAN, complete : BOOLEAN, User : {0, 1, 2},
     Tags : {{}, {"tag:admin"}, {"tag:other"}}]

Requests ==
    [Path : RequestPaths, RemoteAddr : BOOLEAN, WhoIs : WhoIsAnswers,
     Session : {"none", "invalid", "expired", "unauthorized", "authorized"},
     HTMX : BOOLEAN, AcceptJSON : BOOLEAN]

\* Nothing has been written to the response yet.
NoResponse == [next |-> FALSE, user |-> NoUser, code |-> "", location |-> <<>>]

\* The request is served.
ServeRequest ==
    /\ Alive
    /\ auth # NoRequest
    /\ ~auth.called
    /\ auth' = [auth EXCEPT !.called = TRUE, !.w = RequireAuth(auth.cfg, auth.r)]
    /\ UNCHANGED <<brokerVars, callerVars, sseVars, ppc, pollCtxDone, ticks, tick,
                   lastMachineStates, lastUserStates, fleetMachines, fleetUsers,
                   det>>

\* ------------------------------------------------------- the Broker alone
Init == BrokerInit /\ CallerInit /\ SSEInit /\ PollInit

Next ==
    \/ \E h \in Handles : SubscribeCall(h)
    \/ \E h \in Handles : UnsubscribeCall(h)
    \/ BroadcastCall(MaxEvents)
    \/ CloseCall(FALSE)
    \/ \E h \in Handles : Receive(h)
    \/ Actor

Spec == Init /\ [][Next]_vars

\* --------------------------------------- the Broker with HandleSSE clients
NextSSE ==
    \/ \E h \in Handles : SSEStart(h)
    \/ \E h \in Handles : SSERecvRegister(h)
    \/ \E h \in Handles : SSEStream(h)
    \/ \E h \in Handles : SSERecv(h)
    \/ \E h \in Handles : CtxCancel(h)
    \/ \E h \in Handles : SSECtxDone(h)
    \/ \E h \in Handles : SSERecvUnregister(h)
    \/ ActorRegister
    \/ ActorUnregister
    \/ ActorBroadcast
    \/ ActorDone
    \/ BroadcastCall(MaxSSEEvents)
    \/ CloseCall(FALSE)

SpecSSE == Init /\ [][NextSSE]_vars

\* ------------------------------------------------- the Broker after a burst
\* <<MkEvent(a), ..., MkEvent(b)>>
Burst(a, b) == [i \in 1..(b - a + 1) |-> MkEvent(a + i - 1)]

\* The Broker after handle 1 subscribed and was registered, and q Broadcast
\* calls were made, each fanned out to it and none read: its channel holds
\* events 1..q, one short of its capacity or at it.
InitBurst ==
    /\ \E q \in {ClientCap - 1, ClientCap} :
          /\ queue = [h \in Handles |-> IF h = 1 THEN Burst(1, q) ELSE <<>>]
          /\ nextId = q + 1
    /\ clients = {1}
    /\ sub = [h \in Handles |-> IF h = 1 THEN "held" ELSE "none"]
    /\ intake = <<>>
    /\ done = FALSE
    /\ chClosed = [h \in Handles |-> FALSE]
    /\ apc = "select"
    /\ areq = 0
    /\ panicked = FALSE
    /\ calls = 0
    /\ dropped = {}
    /\ closeId = 0
    /\ closeHandles = 0
    /\ SSEInit
    /\ PollInit

NextBurst ==
    \/ \E h \in Handles : SubscribeCall(h)
    \/ \E h \in Handles : UnsubscribeCall(h)
    \/ BroadcastCall(MaxBurst)
    \/ CloseCall(FALSE)
    \/ \E h \in Handles : Receive(h)
    \/ Actor

SpecBurst == InitBurst /\ [][NextBurst]_vars

\* The Broker after k Broadcast calls made before the actor ran and before
\* anyone subscribed: the intake holds events 1..k, one short of its capacity
\* or at it.
InitIntake ==
    /\ \E k \in {IntakeCap - 1, IntakeCap} :
          /\ intake = Burst(1, k)
          /\ nextId = k + 1
    /\ clients = {}
    /\ sub = [h \in Handles |-> "none"]
    /\ queue = [h \in Handles |-> <<>>]
    /\ done = FALSE
    /\ chClosed = [h \in Handles |-> FALSE]
    /\ apc = "select"
    /\ areq = 0
    /\ panicked = FALSE
    /\ calls = 0
    /\ dropped = {}
    /\ closeId = 0
    /\ closeHandles = 0
    /\ SSEInit
    /\ PollInit

NextIntake ==
    \/ \E h \in 1..IntakeClients : SubscribeCall(h)
    \/ BroadcastCall(MaxBurst)
    \/ \E h \in 1..IntakeClients : Receive(h)
    \/ \E h \in 1..IntakeClients : ActorRecvRegister(h)
    \/ ActorRegister
    \/ ActorBroadcast

SpecIntake == InitIntake /\ [][NextIntake]_vars

\* ------------------------------------- a HandleSSE loop and what it writes
\* The HTML an event may carry: every string of up to MaxPayload characters
\* over a letter and the newline.
Payloads ==
    UNION {[1..n -> {"a", "\n"}] : n \in 0..MaxPayload}

\* The events the poller broadcasts, with such HTML.
PayloadEvents ==
    {[Type |-> t, HTML |-> p] : t \in {"machinesTable", "usersTable"}, p \in Payloads}

\* Handle 1 belongs to a HandleSSE call that subscribed, wrote the "connected"
\* frame and entered its loop; one event, or two, were fanned out to its
\* channel since.
InitFrame ==
    /\ \E q \in {<<e>> : e \in PayloadEvents}
                 \cup {<<e, f>> : e \in PayloadEvents, f \in PayloadEvents} :
          queue = [h \in Handles |-> IF h = 1 THEN q ELSE <<>>]
    /\ clients = {1}
    /\ tpc = [h \in Handles |-> IF h = 1 THEN "loop" ELSE "idle"]
    /\ ctxDone = [h \in Handles |-> FALSE]
    /\ resp = [h \in Handles |-> IF h = 1 THEN <<ConnectedFrame>> ELSE <<>>]
    /\ intake = <<>>
    /\ done = FALSE
    /\ chClosed = [h \in Handles |-> FALSE]
    /\ apc = "select"
    /\ areq = 0
    /\ panicked = FALSE
    /\ CallerInit
    /\ PollInit

NextFrame ==
    \/ \E h \in Handles : SSERecv(h)
    \/ \E h \in Handles : CtxCancel(h)
    \/ \E h \in Handles : SSECtxDone(h)
    \/ \E h \in Handles : SSERecvUnregister(h)
    \/ ActorUnregister

SpecFrame == InitFrame /\ [][NextFrame]_vars

\* ------------------------------------------- the poller beside the Broker
\* The poller starts beside a Broker that k clients have subscribed to: each
\* called Subscribe, and the actor registered it.
InitPoll ==
    /\ \E k \in 0..PollClients :
          /\ clients = 1..k
          /\ sub = [h \in Handles |-> IF h <= k THEN "held" ELSE "none"]
    /\ intake = <<>>
    /\ done = FALSE
    /\ queue = [h \in Handles |-> <<>>]
    /\ chClosed = [h \in Handles |-> FALSE]
    /\ apc = "select"
    /\ areq = 0
    /\ panicked = FALSE
    /\ nextId = 1
    /\ calls = 0
    /\ dropped = {}
    /\ closeId = 0
    /\ closeHandles = 0
    /\ SSEInit
    /\ PollInit

NextPoll ==
    \/ FleetChange
    \/ PollCancel
    \/ PollTick
    \/ PollStop

SpecPoll == InitPoll /\ [][NextPoll]_vars

\* ------------------------- the poller, the Broker and one HandleSSE client
\* What the poller has broadcast to a client that subscribed before its first
\* tick, with user "a" known all along, after machine 1 joined and left twice:
\* the users table of the first tick, then both tables at each change.
History ==
    LET ua == {[Id |-> 1, Name |-> "a"]}
        m1 == {FleetMachine(1, TRUE)}
    IN  <<UsersTable(ua),
          MachinesTable(m1, ua), UsersTable(ua),
          MachinesTable({}, ua), UsersTable(ua),
          MachinesTable(m1, ua), UsersTable(ua),
          MachinesTable({}, ua), UsersTable(ua)>>

\* The frames HandleSSE writes for these events.
HistoryFrames(n) == [i \in 1..n |-> EventFrame(History[i])]

\* The state after that history: the fleet is empty again and the poller
\* holds its states; the HandleSSE call of handle 1 has either written every
\* event, or it fell behind and its channel is full with the last ClientCap.
InitLive ==
    /\ \E r \in {Len(History) - ClientCap, Len(History)} :
          /\ queue = [h \in Handles |->
                        IF h = 1 THEN SubSeq(History, r + 1, Len(History)) ELSE <<>>]
          /\ resp = [h \in Handles |->
                        IF h = 1 THEN <<ConnectedFrame>> \o HistoryFrames(r) ELSE <<>>]
    /\ clients = {1}
    /\ tpc = [h \in Handles |-> IF h = 1 THEN "loop" ELSE "idle"]
    /\ ctxDone = [h \in Handles |-> FALSE]
    /\ intake = <<>>
    /\ done = FALSE
    /\ chClosed = [h \in Handles |-> FALSE]
    /\ apc = "select"
    /\ areq = 0
    /\ panicked = FALSE
    /\ CallerInit
    /\ det = NoCall
    /\ auth = NoRequest
    /\ ppc = "wait"
    /\ pollCtxDone = FALSE
    /\ ticks = 0
    /\ tick = NoTick
    /\ fleetMachines = {}
    /\ fleetUsers = {[Id |-> 1, Name |-> "a"]}
    /\ lastMachineStates = MachineStates(fleetMachines)
    /\ lastUserStates = UserStates(fleetUsers, fleetMachines)

\* Every fetch and every render of the last tick succeeded.
TickSucceeded ==
    /\ ~tick.machinesErr
    /\ ~tick.usersErr
    /\ ~tick.machinesRenderErr
    /\ ~tick.usersRenderErr

\* Machines join, leave and go offline while the user list stays; headscale
\* answers every fetch and every template renders.
NextLive ==
    \/ FleetChange /\ UNCHANGED fleetUsers
    \/ PollTick /\ TickSucceeded'
    \/ ActorBroadcast
    \/ \E h \in Handles : SSERecv(h)

\* The poller's ticker keeps ticking, and the actor and the HandleSSE
\* goroutine keep running: each takes its next step in the end.
FairSpecLive ==
    /\ InitLive
    /\ [][NextLive]_vars
    /\ WF_vars(PollTick)
    /\ WF_vars(ActorBroadcast)
    /\ \A h \in Handles : WF_vars(SSERecv(h))

\* ------------------------------------------------ the change detectors alone
DetectIds == 1..NumDetectIds

\* The tracked fields of a MachineState: an offline machine without routes,
\* exit node or tags, and the same with one field changed.
MachineVariants ==
    {[Online |-> FALSE, ApprovedRoutes |-> {}, ExitNodeEnabled |-> FALSE, Tags |-> {}],
     [Online |-> TRUE, ApprovedRoutes |-> {}, ExitNodeEnabled |-> FALSE, Tags |-> {}],
     [Online |-> FALSE, ApprovedRoutes |-> {"r1"}, ExitNodeEnabled |-> FALSE, Tags |-> {}],
     [Online |-> FALSE, ApprovedRoutes |-> {"r2"}, ExitNodeEnabled |-> FALSE, Tags |-> {}],
     [Online |-> FALSE, ApprovedRoutes |-> {"r1", "r2"}, ExitNodeEnabled |-> FALSE,
      Tags |-> {}],
     [Online |-> FALSE, ApprovedRoutes |-> {}, ExitNodeEnabled |-> TRUE, Tags |-> {}],
     [Online |-> FALSE, ApprovedRoutes |-> {}, ExitNodeEnabled |-> FALSE,
      Tags |-> {"t1"}],
     [Online |-> FALSE, ApprovedRoutes |-> {}, ExitNodeEnabled |-> FALSE,
      Tags |-> {"t2"}]}

\* &MachineState{ID: m.ID(), ...}: the state stored under its own ID
MachineStateAt(id, v) ==
    [ID |-> id, Online |-> v.Online, ApprovedRoutes |-> v.ApprovedRoutes,
     ExitNodeEnabled |-> v.ExitNodeEnabled, Tags |-> v.Tags]

\* The maps pollMachineChanges can build over these IDs
MachineMaps ==
    UNION {{[id \in ids |-> MachineStateAt(id, f[id])] : f \in [ids -> MachineVariants]}
              : ids \in SUBSET DetectIds}

\* Name and MachineCount of a UserState
UserVariants ==
    {[Name |-> "a", MachineCount |-> 0], [Name |-> "a", MachineCount |-> 1],
     [Name |-> "b", MachineCount |-> 0], [Name |-> "b", MachineCount |-> 1]}

\* &UserState{ID: user.Id, ...}: the state stored under its own ID
UserStateAt(id, v) == [ID |-> id, Name |-> v.Name, MachineCount |-> v.MachineCount]

\* The maps pollUserChanges can build over these IDs
UserMaps ==
    UNION {{[id \in ids |-> UserStateAt(id, f[id])] : f \in [ids -> UserVariants]}
              : ids \in SUBSET DetectIds}

\* A detector is about to be called on two maps.
InitDetect ==
    /\ BrokerInit
    /\ CallerInit
    /\ SSEInit
    /\ ppc = "wait"
    /\ pollCtxDone = FALSE
    /\ ticks = 0
    /\ tick = NoTick
    /\ lastMachineStates = EmptyMap
    /\ lastUserStates = EmptyMap
    /\ fleetMachines = {}
    /\ fleetUsers = {}
    /\ auth = NoRequest
    /\ \/ \E c \in MachineMaps, p \in MachineMaps :
             det = [fn |-> "machines", current |-> c, previous |-> p,
                    called |-> FALSE, result |-> FALSE]
       \/ \E c \in UserMaps, p \in UserMaps :
             det = [fn |-> "users", current |-> c, previous |-> p,
                    called |-> FALSE, result |-> FALSE]

\* detectMachineChanges(current, previous) is called and returns.
DetectMachines ==
    /\ det.fn = "machines"
    /\ ~det.called
    /\ det' = [det EXCEPT !.called = TRUE,
                          !.result = detectMachineChanges(det.current, det.previous)]
    /\ UNCHANGED <<brokerVars, callerVars, sseVars, ppc, pollCtxDone, ticks, tick,
                   lastMachineStates, lastUserStates, fleetMachines, fleetUsers,
                   auth>>

\* detectUserChanges(current, previous) is called and returns.
DetectUsers ==
    /\ det.fn = "users"
    /\ ~det.called
    /\ det' = [det EXCEPT !.called = TRUE,
                          !.result = detectUserChanges(det.current, det.previous)]
    /\ UNCHANGED <<brokerVars, callerVars, sseVars, ppc, pollCtxDone, ticks, tick,
                   lastMachineStates, lastUserStates, fleetMachines, fleetUsers,
                   auth>>

NextDetect ==
    \/ DetectMachines
    \/ DetectUsers

SpecDetect == InitDetect /\ [][NextDetect]_vars

\* ------------------------------------------------ requests through RequireAuth
\* A middleware of some configuration receives some request.
InitAuth ==
    /\ BrokerInit
    /\ CallerInit
    /\ SSEInit
    /\ det = NoCall
    /\ ppc = "wait"
    /\ pollCtxDone = FALSE
    /\ ticks = 0
    /\ tick = NoTick
    /\ lastMachineStates = EmptyMap
    /\ lastUserStates = EmptyMap
    /\ fleetMachines = {}
    /\ fleetUsers = {}
    /\ \E cfg \in Configs, r \in Requests :
          auth = [called |-> FALSE, cfg |-> cfg, r |-> r, w |-> NoResponse]

NextAuth == ServeRequest

SpecAuth == InitAuth /\ [][NextAuth]_vars

\* ================================================================ properties
Last(q) == q[Len(q)]

\* The payload number of a direct Broadcast's event
IdOf(e) == e.HTML[1]

\* The actor takes one event from the intake and fans it out.
FanOutStep == /\ apc = "select"
              /\ intake # <<>>
              /\ intake' = Tail(intake)

\* C1 (fan-out): whenever the actor processes a broadcast event, the event is
\* appended to the queue of every subscriber that is in the registry at that
\* moment and whose queue is not full; no registered subscriber with spare
\* capacity is skipped, whatever the number of subscribers.
C1_FanOut ==
    [][FanOutStep =>
         \A c \in clients :
            Len(queue[c]) < ClientCap => queue'[c] = Append(queue[c], Head(intake))
      ]_vars

\* Two registered subscribers hold the same event as their newest one.
C1_Witness ==
    \E c1 \in clients, c2 \in clients :
       /\ c1 # c2
       /\ queue[c1] # <<>>
       /\ queue[c2] # <<>>
       /\ Last(queue[c1]) = Last(queue[c2])

\* Neither the actor's fan-out nor a Broadcast call waits for anything: the
\* first can run whenever the actor is at its select with an event in the
\* intake, the second at any time.
NeverBlocks(limit) ==
    /\ (Alive /\ apc = "select" /\ intake # <<>>) => ENABLED ActorBroadcast
    /\ (Alive /\ calls < limit) => ENABLED BroadcastCall(limit)

\* C2 (isolation): when the queue of one subscriber is full (5 unread events)
\* at the fan-out of an event, the event is dropped for that subscriber only:
\* its queue is left as it is, it stays registered and open, every other
\* registered subscriber with spare capacity gets the event, and neither the
\* actor nor the caller of Broadcast blocks.
C2_Isolation ==
    /\ [](NeverBlocks(MaxBurst))
    /\ [][(FanOutStep /\ \E c \in clients : Len(queue[c]) = ClientCap) =>
            /\ \A c \in clients :
                  queue'[c] = IF Len(queue[c]) = ClientCap
                              THEN queue[c]
                              ELSE Append(queue[c], Head(intake))
            /\ clients' = clients
            /\ chClosed' = chClosed
            /\ apc' = "select"
            /\ ~panicked'
         ]_vars

\* A registered subscriber sits on a full queue while another registered
\* subscriber holds an event newer than everything in that full queue.
C2_Witness ==
    \E c1 \in clients, c2 \in clients :
       /\ Len(queue[c1]) = ClientCap
       /\ queue[c2] # <<>>
       /\ \A i \in 1..ClientCap : IdOf(queue[c1][i]) < IdOf(Last(queue[c2]))

\* The events a client channel or the intake holds
Held(q) == {q[i] : i \in 1..Len(q)}

\* C3 (Broadcast never blocks): a Broadcast call returns at once whatever the
\* state of the system; when the intake already holds 10 events the call
\* changes nothing (the event is dropped entirely), and a dropped event is
\* never offered to any subscriber.
C3_BroadcastNeverBlocks ==
    /\ [](NeverBlocks(MaxBurst))
    /\ [](\A id \in dropped :
             /\ MkEvent(id) \notin Held(intake)
             /\ \A c \in Handles : MkEvent(id) \notin Held(queue[c]))
    /\ [][(calls' = calls + 1 /\ Len(intake) = IntakeCap) =>
            /\ dropped' = dropped \cup {nextId}
            /\ UNCHANGED <<intake, clients, queue, chClosed, apc, done, panicked>>
         ]_vars

\* An event was dropped at the full intake, and a subscriber holds an event
\* of a later Broadcast call.
C3_Witness ==
    \E id \in dropped, c \in clients :
       \E i \in 1..Len(queue[c]) : IdOf(queue[c][i]) > id

\* The actor has received an Unsubscribe request and runs its case body.
UnregisterStep == apc = "unregister" /\ apc' = "select"

\* C4 (Unsubscribe): Unsubscribe(h) of a registered handle removes it from the
\* registry and closes its queue; Unsubscribe(h) of a handle that is not (or
\* no longer) registered changes nothing and does not fail; on a running
\* Broker the call is taken by the actor, i.e. it returns.
C4_Unsubscribe ==
    /\ [](\A h \in Handles :
             (Alive /\ apc = "select" /\ sub[h] = "unsub")
                => ENABLED ActorRecvUnregister(h))
    /\ [][UnregisterStep =>
            /\ ~panicked'
            /\ UNCHANGED <<queue, intake>>
            /\ IF areq \in clients
               THEN /\ clients' = clients \ {areq}
                    /\ chClosed' = [chClosed EXCEPT ![areq] = TRUE]
               ELSE UNCHANGED <<clients, chClosed>>
         ]_vars

\* The owner of a handle that an earlier Unsubscribe closed has called
\* Unsubscribe again; the call has returned and the actor runs its case body
\* on the closed, unregistered handle.
C4_Witness ==
    /\ apc = "unregister"
    /\ areq \in Handles
    /\ chClosed[areq]
    /\ areq \notin clients
    /\ sub[areq] = "held"
    /\ ~done

\* ------------------------------------------------ the Broker, fairly scheduled
\* The actor goroutine keeps running: a case body it has entered is finished,
\* and, select choosing among its ready cases at random, the done case is
\* taken in the end if it is ready whenever the actor comes back to its select.
NextShutdown ==
    \/ \E h \in Handles : SubscribeCall(h)
    \/ \E h \in Handles : UnsubscribeCall(h)
    \/ BroadcastCall(MaxShutdownEvents)
    \/ CloseCall(FALSE)
    \/ \E h \in Handles : Receive(h)
    \/ Actor

FairSpec ==
    /\ Init
    /\ [][NextShutdown]_vars
    /\ WF_vars(ActorRegister)
    /\ WF_vars(ActorUnregister)
    /\ SF_vars(ActorDone)

\* The actor has returned, the registry is empty, and every channel that was
\* ever registered (its Subscribe call returned) is closed.
ShutDown ==
    /\ apc = "exited"
    /\ ClientCount = 0
    /\ \A h \in Handles : sub[h] \in {"held", "unsub"} => chClosed[h]

\* C5 (shutdown): after Close() is called the Broker eventually reaches a
\* state where every queue that was registered is closed and the registry is
\* empty (ClientCount() = 0); it stays in such a state, and from then on no
\* event is delivered to any queue.
C5_Shutdown ==
    /\ done ~> ShutDown
    /\ [][ShutDown =>
            /\ ShutDown'
            /\ \A h \in Handles :
                  \/ queue'[h] = queue[h]
                  \/ queue[h] # <<>> /\ queue'[h] = Tail(queue[h])
         ]_vars

\* The Broker is shut down; the channels of two subscribers are closed, one
\* of them with an unread event.
C5_Witness ==
    /\ ShutDown
    /\ \A h \in Handles : sub[h] = "held" /\ chClosed[h]
    /\ \E h \in Handles : queue[h] # <<>>

\* ------------------------------------------- the Broker, Close being marked
NextClose ==
    \/ \E h \in Handles : SubscribeCall(h)
    \/ \E h \in Handles : UnsubscribeCall(h)
    \/ BroadcastCall(MaxEvents)
    \/ CloseCall(TRUE)
    \/ \E h \in Handles : Receive(h)
    \/ Actor

SpecClose == Init /\ [][NextClose]_vars

\* A Subscribe call waits on b.register after the only goroutine that receives
\* from it has returned: it waits forever.
SubscribeStuck(h) == sub[h] = "sending" /\ apc = "exited"

\* Handle h belongs to a Subscribe call made after Close was called.
SubscribedAfterClose(h) == done /\ h > closeHandles /\ Allocated(h)

\* C6 (Subscribe after Close): a Subscribe call made after the Broker has been
\* closed returns (it neither blocks forever nor panics), and the handle it
\* returns never receives an event.
C6_SubscribeAfterClose ==
    \A h \in Handles :
       SubscribedAfterClose(h) =>
          /\ ~SubscribeStuck(h)
          /\ ~panicked
          /\ queue[h] = <<>>

\* C7 (Broadcast after Close): a Broadcast call made after the Broker has been
\* closed returns without blocking or panicking, however many such calls are
\* made, and its event is never placed in any subscriber queue.
C7_BroadcastAfterClose ==
    /\ ~panicked
    /\ (Alive /\ calls < MaxEvents) => ENABLED BroadcastCall(MaxEvents)
    /\ done => \A h \in Handles :
                  \A i \in 1..Len(queue[h]) : IdOf(queue[h][i]) < closeId

\* ------------------------------------- HandleSSE clients, fairly scheduled
\* The actor as in FairSpec; every HandleSSE goroutine keeps running, and a
\* select with several ready cases takes each of them in the end.
FairSpecSSE ==
    /\ SpecSSE
    /\ WF_vars(ActorRegister)
    /\ WF_vars(ActorUnregister)
    /\ SF_vars(ActorDone)
    /\ \A h \in Handles : /\ WF_vars(SSEStream(h))
                          /\ SF_vars(SSECtxDone(h))
                          /\ SF_vars(SSERecv(h))
                          /\ SF_vars(SSERecvUnregister(h))

\* C8 (shutdown stops the transports): once Close() has closed the queue of a
\* subscriber, the HandleSSE call of that subscriber eventually returns, and
\* it writes no event frame after it has observed the closure (no frame is
\* ever written from a receive on the closed, drained channel).
C8_CloseStopsTransports ==
    /\ [](\A h \in Handles : ZeroFrames(h) = 0)
    /\ \A h \in Handles :
          (apc = "exited" /\ chClosed[h] /\ tpc[h] \in {"stream", "loop", "unsub"})
             ~> (tpc[h] = "returned")

\* A HandleSSE call holds handle h: its Subscribe has returned, its deferred
\* Unsubscribe has not, and the channel has not been closed.
Attached(h) == tpc[h] \in {"stream", "loop", "unsub"} /\ ~chClosed[h]

\* C9 (registry membership): in every reachable state a subscriber queue is in
\* the registry if and only if some HandleSSE call holds its handle and has
\* not yet unsubscribed or been torn down.
C9_RegistryMembership == \A h \in Handles : h \in clients <=> Attached(h)

\* The poller takes a tick.
TickStep == ticks' = ticks + 1

\* C10 (quiescence): on a poll tick where ClientCount() returns 0 the poller
\* fetches neither machines nor users, runs no change detection, issues no
\* Broadcast and leaves both previous-state maps unchanged.
C10_Quiescence ==
    /\ [](tick.clientCount = 0 =>
             /\ ~tick.machinesFetched
             /\ ~tick.usersFetched
             /\ ~tick.polled
             /\ ~tick.machinesChanged
             /\ ~tick.usersChanged
             /\ ~tick.machinesSent
             /\ ~tick.usersSent)
    /\ [][(TickStep /\ ClientCount = 0) =>
            /\ tick'.clientCount = 0
            /\ UNCHANGED <<intake, lastMachineStates, lastUserStates>>
         ]_vars

\* A tick has been taken with no client while the fleet differs from what the
\* poller last recorded: a tick that was not skipped would have detected a
\* change of the machines and of the users.
C10_Witness ==
    /\ ticks > 0
    /\ tick.clientCount = 0
    /\ ClientCount = 0
    /\ detectMachineChanges(MachineStates(fleetMachines), lastMachineStates)
    /\ detectUserChanges(UserStates(fleetUsers, fleetMachines), lastUserStates)
    /\ intake = <<>>

\* The events a step appends to the intake
Added == SubSeq(intake', Len(intake) + 1, Len(intake'))

\* How many events of one type a sequence holds
CountType(q, type) == Cardinality({i \in 1..Len(q) : q[i].Type = type})

\* The projections pollMachineChanges and pollUserChanges build from what the
\* fetches of this tick return
CurrentMachineStates == MachineStates(fleetMachines)

CurrentUserStates == UserStates(fleetUsers, fleetMachines)

\* C11 (one broadcast per class, only on a change): on every poll tick the
\* poller calls Broadcast at most once per entity class, machines before
\* users, and only if the freshly built projection of that class differs from
\* the stored previous one; when the two are equal no Broadcast of that class
\* is issued.
C11_BroadcastOnlyOnChange ==
    [][TickStep =>
         /\ Len(intake') >= Len(intake)
         /\ SubSeq(intake', 1, Len(intake)) = intake
         /\ CountType(Added, "machinesTable") <= 1
         /\ CountType(Added, "usersTable") <= 1
         /\ Len(Added) = CountType(Added, "machinesTable") + CountType(Added, "usersTable")
         /\ Len(Added) = 2 => Added[1].Type = "machinesTable"
         /\ CurrentMachineStates = lastMachineStates
               => CountType(Added, "machinesTable") = 0
         /\ CurrentUserStates = lastUserStates
               => CountType(Added, "usersTable") = 0
         /\ tick'.machinesSent <=> CountType(Added, "machinesTable") = 1
         /\ tick'.usersSent <=> CountType(Added, "usersTable") = 1
      ]_vars

\* A second tick polled a fleet with a machine and a user, found both
\* projections equal to the stored ones and sent nothing, the first tick
\* having sent one event per class.
C11_Witness ==
    /\ ticks = 2
    /\ tick.polled
    /\ ~tick.machinesChanged /\ ~tick.usersChanged
    /\ fleetMachines # {} /\ fleetUsers # {}
    /\ Len(intake) = 2
    /\ intake[1].Type = "machinesTable"
    /\ intake[2].Type = "usersTable"

\* C12 (rolling diff): after a poll tick in which both fetches succeed, the
\* stored previous map of each class equals the projection of the snapshot
\* fetched in that tick, whether or not a change was detected and whether or
\* not a broadcast was sent.
C12_RollingDiff ==
    [][(TickStep /\ tick'.machinesFetched /\ ~tick'.machinesErr
                 /\ tick'.usersFetched /\ ~tick'.usersErr) =>
         /\ lastMachineStates' = CurrentMachineStates
         /\ lastUserStates' = CurrentUserStates
      ]_vars

\* Both fetches of the last tick succeeded, a machine change was detected but
\* not sent (the render failed), no user change was detected, and the stored
\* maps are the projections of the fleet.
C12_Witness ==
    /\ tick.polled
    /\ tick.machinesChanged /\ ~tick.machinesSent
    /\ ~tick.usersChanged
    /\ fleetMachines # {} /\ fleetUsers # {}
    /\ lastMachineStates = CurrentMachineStates
    /\ lastUserStates = CurrentUserStates

\* C13 (fetch failure): when the fetch of a class returns an error on a tick,
\* no Broadcast of that class is issued on that tick and the previous-state
\* map of that class is left unchanged; the poller keeps running, and every
\* tick taken with clients connected fetches again.
C13_FetchFailure ==
    /\ []((Alive /\ ppc = "wait" /\ ticks < MaxTicks) => ENABLED PollTick)
    /\ [][TickStep =>
            /\ tick'.machinesErr =>
                  /\ CountType(Added, "machinesTable") = 0
                  /\ UNCHANGED lastMachineStates
            /\ tick'.usersErr =>
                  /\ CountType(Added, "usersTable") = 0
                  /\ UNCHANGED lastUserStates
            /\ (tick'.machinesErr \/ tick'.usersErr) => (ppc' = "wait" /\ ~panicked')
            /\ ClientCount > 0 => tick'.machinesFetched
         ]_vars

\* The user fetch of the second tick failed while the users differ from the
\* stored projection, the first tick having polled.
C13_Witness ==
    /\ ticks = 2
    /\ tick.usersErr
    /\ lastMachineStates # EmptyMap
    /\ CurrentUserStates # lastUserStates
    /\ CountType(intake, "usersTable") = 0

\* C14 (render failure): when the render fails on a tick where a change was
\* detected, no Broadcast is issued for that change and the previous-state
\* map is still advanced to the new projection; a following tick that fetches
\* the same snapshot therefore detects no change and broadcasts nothing.
C14_RenderFailure ==
    [][TickStep =>
         /\ tick'.machinesRenderErr =>
               /\ CountType(Added, "machinesTable") = 0
               /\ lastMachineStates' = CurrentMachineStates
         /\ tick'.usersRenderErr =>
               /\ CountType(Added, "usersTable") = 0
               /\ lastUserStates' = CurrentUserStates
         /\ (tick'.polled /\ CurrentMachineStates = lastMachineStates) =>
               (~tick'.machinesChanged /\ CountType(Added, "machinesTable") = 0)
         /\ (tick'.polled /\ CurrentUserStates = lastUserStates) =>
               (~tick'.usersChanged /\ CountType(Added, "usersTable") = 0)
      ]_vars

\* The first tick detected the new machine and failed to render it; the
\* second tick fetched the same fleet, detected nothing and sent nothing: the
\* machine was never announced.
C14_Witness ==
    /\ ticks = 2
    /\ tick.polled
    /\ ~tick.machinesChanged
    /\ fleetMachines # {}
    /\ lastMachineStates = CurrentMachineStates
    /\ CountType(intake, "machinesTable") = 0

\* C15 (detectMachineChanges): the detector returns true if and only if the
\* two maps differ: a machine ID is in one map and not in the other, or a
\* machine of both differs in its online flag, its approved-route set, its
\* exit-node flag or its tag set, the sets being compared as sets.
C15_DetectMachineChanges ==
    (det.fn = "machines" /\ det.called) =>
       (det.result <=> det.current # det.previous)

\* The detector returned true for two maps of the same machines that differ
\* in one machine only, whose route sets have the same size and different
\* members.
C15_Witness ==
    /\ det.fn = "machines"
    /\ det.called
    /\ det.result
    /\ DOMAIN det.current = DetectIds
    /\ DOMAIN det.previous = DetectIds
    /\ \E id \in DetectIds :
          /\ det.current[id].ApprovedRoutes = {"r1"}
          /\ det.previous[id].ApprovedRoutes = {"r2"}
          /\ \A other \in DetectIds \ {id} : det.current[other] = det.previous[other]

\* C16 (detectUserChanges): the detector returns false for two maps with the
\* same user IDs and the same Name and MachineCount per ID (two empty maps
\* included), and true whenever a user is added, removed, renamed or has a
\* different machine count, also when one user is removed and another added
\* so that the maps have the same size.
C16_DetectUserChanges ==
    (det.fn = "users" /\ det.called) =>
       /\ (/\ DOMAIN det.current = DOMAIN det.previous
           /\ \A id \in DOMAIN det.current :
                 /\ det.current[id].Name = det.previous[id].Name
                 /\ det.current[id].MachineCount = det.previous[id].MachineCount)
             => ~det.result
       /\ (\/ \E id \in DOMAIN det.current : id \notin DOMAIN det.previous
           \/ \E id \in DOMAIN det.previous : id \notin DOMAIN det.current
           \/ \E id \in DOMAIN det.current \cap DOMAIN det.previous :
                 \/ det.current[id].Name # det.previous[id].Name
                 \/ det.current[id].MachineCount # det.previous[id].MachineCount)
             => det.result

\* The detector returned true for two maps of one user each, the user of the
\* previous map removed and another one, of the same name and count, added.
C16_Witness ==
    /\ det.fn = "users"
    /\ det.called
    /\ det.result
    /\ \E id \in DetectIds, other \in DetectIds :
          /\ id # other
          /\ DOMAIN det.current = {id}
          /\ DOMAIN det.previous = {other}
          /\ det.current[id].Name = det.previous[other].Name
          /\ det.current[id].MachineCount = det.previous[other].MachineCount

\* C17 (no retroactive delivery): events broadcast while the registry is
\* empty are never delivered to a subscriber that subscribes afterwards: the
\* Broadcast calls made with zero subscribers neither block nor panic, and a
\* subscriber whose Subscribe call starts after those calls returned receives
\* none of their events. (In SpecIntake the events below IntakeCap were all
\* broadcast before any Subscribe call started.)
C17_NoRetroactiveDelivery ==
    /\ ~panicked
    /\ NeverBlocks(MaxBurst)
    /\ \A h \in Handles :
          \A i \in 1..Len(queue[h]) : IdOf(queue[h][i]) >= IntakeCap

\* C18 (overflow of one subscriber): once the queue of a subscriber holds 5
\* unread events, one more Broadcast neither blocks nor fails; at its fan-out
\* the subscriber stays registered (ClientCount unchanged) with its queue
\* open and unchanged, so that exactly the overflowing event is absent from
\* what the subscriber reads later: the events already queued stay, and a
\* later event that finds a free slot is queued again.
C18_Overflow ==
    /\ [](NeverBlocks(MaxBurst))
    /\ [](\A c \in clients : ~chClosed[c])
    /\ [][FanOutStep =>
            \A c \in clients :
               /\ c \in clients'
               /\ ~chClosed'[c]
               /\ ~panicked'
               /\ ClientCount' = ClientCount
               /\ IF Len(queue[c]) = ClientCap
                  THEN /\ queue'[c] = queue[c]
                       /\ Head(intake) \notin Held(queue'[c])
                  ELSE /\ SubSeq(queue'[c], 1, Len(queue[c])) = queue[c]
                       /\ Last(queue'[c]) = Head(intake)
                       /\ Len(queue'[c]) = Len(queue[c]) + 1
         ]_vars

\* Subscriber 1 let 5 events pile up, missed the 6th, then read one event and
\* got the 7th: it is registered and open, and of events 2..7 its queue lacks
\* exactly the 6th.
C18_Witness ==
    /\ 1 \in clients
    /\ ~chClosed[1]
    /\ Len(queue[1]) = ClientCap
    /\ \A i \in 1..(ClientCap - 1) : IdOf(queue[1][i]) = i + 1
    /\ IdOf(queue[1][ClientCap]) = ClientCap + 2

\* The events of q are in the order of their Broadcast calls, none twice.
Increasing(q) == \A i \in 1..Len(q), j \in 1..Len(q) : i < j => IdOf(q[i]) < IdOf(q[j])

\* C19 (exactly once, in order): what a subscriber reads is a subsequence of
\* the events the intake accepted, in intake order. The intake and every
\* queue hold accepted events in the order of their acceptance, none twice,
\* every queued event older than every event still in the intake; a queue
\* changes only by a read of its oldest event or by the actor appending the
\* event it takes from the head of the intake.
C19_ExactlyOnceInOrder ==
    /\ [](/\ Increasing(intake)
          /\ \A i \in 1..Len(intake) :
                IdOf(intake[i]) \notin dropped /\ IdOf(intake[i]) < nextId
          /\ \A h \in Handles :
                /\ Increasing(queue[h])
                /\ \A i \in 1..Len(queue[h]) :
                      /\ IdOf(queue[h][i]) \notin dropped
                      /\ \A j \in 1..Len(intake) :
                            IdOf(queue[h][i]) < IdOf(intake[j]))
    /\ [][\A h \in Handles :
             \/ queue'[h] = queue[h]
             \/ queue[h] # <<>> /\ queue'[h] = Tail(queue[h]) /\ UNCHANGED intake
             \/ FanOutStep /\ queue'[h] = Append(queue[h], Head(intake))
         ]_vars

\* A subscriber has read or missed the first event, holds the second and
\* third in order, and another subscriber holds the third only.
C19_Witness ==
    \E h \in clients, g \in clients :
       /\ Len(queue[h]) = 2
       /\ IdOf(queue[h][1]) = 2
       /\ IdOf(queue[h][2]) = 3
       /\ Len(queue[g]) = 1
       /\ IdOf(queue[g][1]) = 3

\* --------------------------- HandleSSE clients of a Broker that keeps running
NextDisconnect ==
    \/ \E h \in 1..DisconnectClients : SSEStart(h)
    \/ \E h \in 1..DisconnectClients : SSERecvRegister(h)
    \/ \E h \in 1..DisconnectClients : SSEStream(h)
    \/ \E h \in 1..DisconnectClients : SSERecv(h)
    \/ \E h \in 1..DisconnectClients : CtxCancel(h)
    \/ \E h \in 1..DisconnectClients : SSECtxDone(h)
    \/ \E h \in 1..DisconnectClients : SSERecvUnregister(h)
    \/ ActorRegister
    \/ ActorUnregister
    \/ ActorBroadcast
    \/ BroadcastCall(MaxDisconnectEvents)

\* Close is never called. The actor and every HandleSSE goroutine keep
\* running; a select (of the actor, of a HandleSSE loop) with several ready
\* cases takes each of them in the end.
FairSpecDisconnect ==
    /\ Init
    /\ [][NextDisconnect]_vars
    /\ WF_vars(ActorRegister)
    /\ WF_vars(ActorUnregister)
    /\ \A h \in 1..DisconnectClients : /\ SF_vars(SSERecvRegister(h))
                          /\ WF_vars(SSEStream(h))
                          /\ SF_vars(SSECtxDone(h))
                          /\ SF_vars(SSERecvUnregister(h))

\* C20 (client disconnect): when the context of a connection is cancelled
\* while the Broker is running, its HandleSSE call eventually returns, its
\* subscriber is eventually removed from the registry and its queue closed,
\* so that ClientCount() no longer counts it.
C20_Disconnect ==
    \A h \in 1..DisconnectClients :
       (ctxDone[h] /\ tpc[h] \notin {"idle", "returned"})
          ~> (tpc[h] = "returned" /\ h \notin clients /\ chClosed[h])

\* A client that streamed an event has disconnected: its HandleSSE call has
\* returned, its channel is closed and out of the registry, which no longer
\* counts it.
C20_Witness ==
    \E h \in Handles :
       /\ ctxDone[h]
       /\ tpc[h] = "returned"
       /\ h \notin clients
       /\ chClosed[h]
       /\ Len(resp[h]) >= 2
       /\ ClientCount = 0

\* The frames of this kind in a response.
CountKind(r, kind) == Len(SelectSeq(r, LAMBDA f : f.kind = kind))

\* Subscribe has returned for this handle: the actor took the channel from
\* b.register (it holds it, has registered it, or has closed it since).
Delivered(h) == areq = h \/ h \in clients \/ chClosed[h]

\* C21 (connection acknowledgement ordering): on a HandleSSE connection that
\* supports streaming, the "connected" frame is written exactly once, before
\* any event frame, and Subscribe has returned by the time it is written.
C21_ConnectedFirst ==
    [][\A h \in Handles :
          /\ CountKind(resp'[h], "connected") <= 1
          /\ tpc'[h] = "loop" =>
                /\ CountKind(resp'[h], "connected") = 1
                /\ resp'[h][1].kind = "connected"
          /\ (resp'[h] # resp[h] /\ Last(resp'[h]).kind = "connected") =>
                /\ resp[h] = <<>>
                /\ Delivered(h)
          /\ (resp'[h] # resp[h] /\ Last(resp'[h]).kind = "event") =>
                /\ resp[h] # <<>>
                /\ resp[h][1].kind = "connected"]_vars

\* A connection was acknowledged and then streamed an event of a Broadcast.
C21_Witness ==
    \E h \in Handles :
       /\ Len(resp[h]) = 2
       /\ resp[h][1].kind = "connected"
       /\ resp[h][2].kind = "event"
       /\ resp[h][2].Type = "x"

\* The occurrences of a character in a text.
CountChar(s, c) == Cardinality({i \in 1..Len(s) : s[i] = c})

\* A payload with "data: " put after each of its newlines.
RECURSIVE Prefixed(_)
Prefixed(s) ==
    IF s = <<>> THEN <<>>
    ELSE (IF Head(s) = "\n" THEN <<"\n", "data: ">> ELSE <<Head(s)>>)
         \o Prefixed(Tail(s))

\* C22 (wire framing): for every event read from the queue HandleSSE writes
\* one frame, after all it wrote before: an "event: <type>" line, one "data:"
\* line per newline-separated line of the payload, in order (k+1 lines for k
\* newlines), and a blank line.
C22_WireFraming ==
    [][\A h \in Handles :
          (tpc[h] = "loop" /\ resp'[h] # resp[h]) =>
             LET e == Head(queue[h])
                 text == <<"event: ", e.Type, "\n", "data: ">>
                         \o Prefixed(e.HTML) \o <<"\n", "\n">>
             IN  /\ queue[h] # <<>>
                 /\ queue'[h] = Tail(queue[h])
                 /\ Len(resp'[h]) = Len(resp[h]) + 1
                 /\ Wire(resp'[h]) = Wire(resp[h]) \o text
                 /\ CountChar(text, "event: ") = 1
                 /\ CountChar(text, "data: ") = CountChar(e.HTML, "\n") + 1]_vars

\* Two successive events were written, the first with an empty line inside
\* its payload; the text ends with the blank line of the second frame.
C22_Witness ==
    /\ Len(resp[1]) = 3
    /\ resp[1][2].HTML = <<"a", "\n", "\n">>
    /\ resp[1][3].HTML = <<"\n", "a">>
    /\ Len(Wire(resp[1])) = 3 + 11 + 9

\* The StartPolling goroutine keeps running: its select, with ctx.Done()
\* ready for good, takes that case in the end.
FairSpecPoll == SpecPoll /\ WF_vars(PollStop)

\* C23 (poller cancellation): once the poller's context is cancelled,
\* StartPolling eventually returns; after it has returned it takes no tick,
\* so it fetches nothing and issues no Broadcast.
C23_PollerCancellation ==
    /\ pollCtxDone ~> ppc = "stopped"
    /\ [][ppc = "stopped" =>
             UNCHANGED <<ppc, ticks, tick, intake,
                         lastMachineStates, lastUserStates>>]_vars

\* StartPolling has returned after a tick that polled, with a client
\* registered, ticks left on the ticker and a fleet that differs from what it
\* last recorded: a further tick would fetch and broadcast.
C23_Witness ==
    /\ ppc = "stopped"
    /\ pollCtxDone
    /\ tick.polled
    /\ ticks < MaxTicks
    /\ ClientCount > 0
    /\ MachineStates(fleetMachines) # lastMachineStates

\* The machines of the last machinesTable frame of a response; 0 without one.
RECURSIVE LastShown(_)
LastShown(r) ==
    IF r = <<>> THEN 0
    ELSE IF Last(r).kind = "event" /\ Last(r).Type = "machinesTable"
         THEN Last(r).HTML[1].Machines
         ELSE LastShown(SubSeq(r, 1, Len(r) - 1))

\* The fleet is f, which differs from what the poller recorded last and from
\* what the registered client of handle 1 was shown last, and the ticker has
\* ticks left.
Unseen(f) ==
    /\ fleetMachines = f
    /\ MachineStates(f) # lastMachineStates
    /\ LastShown(resp[1]) # f
    /\ 1 \in clients
    /\ ticks < MaxTicks

\* The client has written a machinesTable frame of the fleet f, or the fleet
\* has changed again.
Shown(f) == LastShown(resp[1]) = f \/ fleetMachines # f

\* C24 as stated (live update reaches a connected client): if the fleet
\* changes while a subscriber is registered and keeps draining its queue, and
\* the fetches and renders succeed (as they all do in FairSpecLive), the
\* subscriber eventually receives a machinesTable event of the full changed
\* snapshot.
C24_Original == \A f \in Fleets : Unseen(f) ~> Shown(f)

\* C24, amended: the same, provided neither the intake nor the queue of the
\* subscriber is ever full (a full one drops the event, and the poller, which
\* has advanced its previous states, does not send it again).
C24_LiveUpdate ==
    [](Len(intake) < IntakeCap /\ Len(queue[1]) < ClientCap)
       => \A f \in Fleets : Unseen(f) ~> Shown(f)

\* Machine 1 joined after the history, and the client, which had kept up, was
\* shown the table with it.
C24_Witness ==
    /\ fleetMachines = {FleetMachine(1, TRUE)}
    /\ LastShown(resp[1]) = fleetMachines
    /\ Len(resp[1]) > 1 + Len(History)
    /\ TickSucceeded
    /\ ticks = 1

\* C25 (auth gate): RequireAuth passes a request to the protected handler
\* only if no listener is configured, the path is /auth/login, /auth/callback
\* or /auth/logout, WhoIs authentication succeeded for an authorized user, or
\* the OIDC session authentication succeeded; otherwise the handler is not
\* invoked and the response is a 403 or a redirect to /auth/login.
C25_AuthGate ==
    auth.called =>
       LET cfg == auth.cfg
           r == auth.r
           open == ~cfg.Tailscale /\ ~cfg.HTTP
           public == r.Path \in {<<"/", "auth", "/", "login">>,
                                 <<"/", "auth", "/", "callback">>,
                                 <<"/", "auth", "/", "logout">>}
           whoIs == /\ cfg.Tailscale
                    /\ r.RemoteAddr /\ r.WhoIs.found /\ r.WhoIs.complete
                    /\ \/ r.WhoIs.User = 1
                       \/ "tag:admin" \in r.WhoIs.Tags /\ r.WhoIs.User # 0
           oidc == cfg.oidcAuth /\ r.Session = "authorized"
       IN  IF open \/ public \/ whoIs \/ oidc
           THEN TRUE
           ELSE /\ ~auth.w.next
                /\ \/ auth.w.code = "403"
                   \/ /\ auth.w.code = "303"
                      /\ auth.w.location = <<"/", "auth", "/", "login">>

\* Subscribe has returned handle h to a direct caller, and since then no
\* Unsubscribe(h) has been taken by the actor, and the actor has not closed
\* the channel.
Subscribed(h) ==
    /\ sub[h] = "held"
    /\ ~chClosed[h]
    /\ ~(apc = "unregister" /\ areq = h)

\* C26 (ClientCount consistent with Subscribe): once a Subscribe() call has
\* returned, and until the handle is unsubscribed or the Broker closed,
\* ClientCount() counts that subscriber, so it returns at least 1.
C26_ClientCountAfterSubscribe ==
    \A h \in Handles :
       (Subscribed(h) /\ ~done) => (h \in clients /\ ClientCount >= 1)

\* C27 (Broadcast after Subscribe): a Broadcast call that starts after a
\* Subscribe() call has returned, and is accepted into the intake, is fanned
\* out to a registry that contains the new handle, unless the handle was
\* unsubscribed or the Broker closed in between. The actor fans out only from
\* its select, so it is enough that every fan-out finds every handle whose
\* Subscribe has returned in the registry, and offers it the event.
C27_BroadcastAfterSubscribe ==
    [][(intake # <<>> /\ intake' = Tail(intake)) =>
          \A h \in Handles :
             Subscribed(h) =>
                /\ h \in clients
                /\ \/ /\ Len(queue[h]) < ClientCap
                      /\ queue'[h] = Append(queue[h], Head(intake))
                   \/ /\ Len(queue[h]) = ClientCap
                      /\ queue'[h] = queue[h]]_vars

\* Two subscribers hold the same last event, the one that subscribed later
\* fewer events than the other: a Broadcast made after the later Subscribe
\* returned was offered to both.
C27_Witness ==
    \E h, g \in Handles :
       /\ Subscribed(h) /\ Subscribed(g)
       /\ queue[h] # <<>>
       /\ Len(queue[g]) > Len(queue[h])
       /\ Last(queue[h]) = Last(queue[g])
       /\ IdOf(Last(queue[h])) > 1

\* C28 (no send on a closed queue, no double close): under every interleaving
\* of Subscribe, Unsubscribe, Broadcast and Close the actor never panics; the
\* registry never holds a closed channel, so no fan-out sends on one and
\* neither Unsubscribe nor Close closes one again.
C28_NoPanic ==
    /\ ~panicked
    /\ \A h \in clients : ~chClosed[h]

\* After Close was called the actor has taken a second Unsubscribe of a
\* handle whose channel the first one closed.
C28_Witness ==
    /\ done
    /\ apc = "unregister"
    /\ chClosed[areq]
    /\ clients # {}
    /\ intake # <<>>

\* An Unsubscribe call waits on b.unregister after the only goroutine that
\* receives from it has returned: it waits forever.
UnsubscribeStuck(h) == sub[h] = "unsub" /\ apc = "exited"

\* C29 (Unsubscribe after Close): Unsubscribe(h) called after the Broker was
\* closed, Close having removed and closed the handle, returns: it neither
\* blocks forever nor panics.
C29_UnsubscribeAfterClose ==
    \A h \in Handles :
       (done /\ chClosed[h]) => (~UnsubscribeStuck(h) /\ ~panicked)

\* C30 (fetch failures handled per class): on a tick where the machine fetch
\* succeeds and the user fetch fails, the machines are still diffed against
\* their previous map, which is advanced to the current states, and a change
\* is detected (and broadcast unless the render fails); only the users are
\* skipped.
C30_FetchFailurePerClass ==
    [][(TickStep /\ tick'.machinesFetched /\ ~tick'.machinesErr /\ tick'.usersErr) =>
          /\ lastMachineStates' = CurrentMachineStates
          /\ CurrentMachineStates # lastMachineStates =>
                /\ tick'.machinesChanged
                /\ ~tick'.machinesRenderErr => CountType(Added, "machinesTable") = 1
          /\ UNCHANGED lastUserStates
          /\ CountType(Added, "usersTable") = 0]_vars

====
